---- MODULE Spec2Model ----
(***************************************************************************)
(* A model of the JSON viewer's state core (src/src/App.tsx): the parsed   *)
(* document, the search index, the result cursor and the expansion map,    *)
(* and of the page side of a navigation: the two timers of the navigation  *)
(* effect and the search-highlight class they add and remove.              *)
(*                                                                         *)
(* Strings are sequences of one-character strings, so that toLowerCase,    *)
(* trim, includes, split('.') and the dot-joined paths are computed the    *)
(* way the code computes them.                                             *)
(***************************************************************************)
EXTENDS Integers, Sequences, FiniteSets, TLC

VARIABLES jsonInput, parsedJson, error, expandedSections, searchQuery,
          searchResults, currentSearchIndex, last, steps,
          mounted, searchResultRefs, scrollTimers, removeTimers, highlighted

\* the page: the mounted entries, the refs to match elements, the pending
\* timers and the elements that carry the search-highlight class
page == <<mounted, searchResultRefs, scrollTimers, removeTimers, highlighted>>

vars == <<jsonInput, parsedJson, error, expandedSections, searchQuery,
          searchResults, currentSearchIndex, last, steps, page>>

\* the number of user events of a session
MaxSteps == 6

(***************************************************************************)
(* Strings                                                                 *)
(***************************************************************************)
UpperChars == <<"A", "B", "N", "X">>
LowerChars == <<"a", "b", "n", "x">>
DigitChars == <<"0", "1", "2", "3", "4", "5", "6", "7", "8", "9">>

\* String.prototype.toLowerCase, one character
LowerChar(c) ==
    IF \E i \in 1..Len(UpperChars) : UpperChars[i] = c
    THEN LowerChars[CHOOSE i \in 1..Len(UpperChars) : UpperChars[i] = c]
    ELSE c

\* String.prototype.toLowerCase
ToLowerCase(s) == [i \in 1..Len(s) |-> LowerChar(s[i])]

IsSpace(c) == c = " "

\* String.prototype.trim
RECURSIVE TrimStart(_)
TrimStart(s) ==
    IF s # <<>> /\ IsSpace(Head(s)) THEN TrimStart(Tail(s)) ELSE s

RECURSIVE TrimEnd(_)
TrimEnd(s) ==
    IF s # <<>> /\ IsSpace(s[Len(s)])
    THEN TrimEnd(SubSeq(s, 1, Len(s) - 1))
    ELSE s

Trim(s) == TrimEnd(TrimStart(s))

\* String.prototype.includes
Includes(s, q) ==
    \E i \in 0..(Len(s) - Len(q)) : SubSeq(s, i + 1, i + Len(q)) = q

IsDigit(c) == \E i \in 1..Len(DigitChars) : DigitChars[i] = c

DigitValue(c) == (CHOOSE i \in 1..Len(DigitChars) : DigitChars[i] = c) - 1

\* mutant of IsIndexPart: /\d*/.test(part), which every part passes
IsIndexPartUnanchored(part) == part = part

\* /^\d+$/.test(part)
IsIndexPart(part) ==
    /\ part # <<>>
    /\ \A i \in 1..Len(part) : IsDigit(part[i])

\* Number.prototype.toString for a non-negative integer
RECURSIVE NumToString(_)
NumToString(n) ==
    IF n < 10
    THEN <<DigitChars[n + 1]>>
    ELSE NumToString(n \div 10) \o <<DigitChars[(n % 10) + 1]>>

\* parseInt(part, 10) for a part made of digits
RECURSIVE ParseInt(_)
ParseInt(part) ==
    IF part = <<>>
    THEN 0
    ELSE 10 * ParseInt(SubSeq(part, 1, Len(part) - 1))
         + DigitValue(part[Len(part)])

\* String.prototype.split('.')
RECURSIVE Split(_)
Split(s) ==
    IF \E i \in 1..Len(s) : s[i] = "."
    THEN LET i == CHOOSE k \in 1..Len(s) :
                      s[k] = "." /\ \A j \in 1..(k - 1) : s[j] # "."
         IN  <<SubSeq(s, 1, i - 1)>> \o Split(SubSeq(s, i + 1, Len(s)))
    ELSE <<s>>

\* Array.prototype.join('.')
RECURSIVE JoinParts(_)
JoinParts(parts) ==
    IF parts = <<>>
    THEN <<>>
    ELSE IF Len(parts) = 1
         THEN parts[1]
         ELSE parts[1] \o <<".">> \o JoinParts(Tail(parts))

(***************************************************************************)
(* JSON values (the result of JSON.parse)                                  *)
(*   [t |-> "obj", v |-> sequence of [k |-> key, v |-> value]]             *)
(*   [t |-> "arr", v |-> sequence of values]                               *)
(*   [t |-> "str", v |-> characters]   [t |-> "num", v |-> n]              *)
(*   [t |-> "null", v |-> 0]           [t |-> "undef", v |-> 0]            *)
(***************************************************************************)
JObject(entries) == [t |-> "obj", v |-> entries]
JArray(items) == [t |-> "arr", v |-> items]
JString(s) == [t |-> "str", v |-> s]
JNumber(n) == [t |-> "num", v |-> n]
JNull == [t |-> "null", v |-> 0]
Undefined == [t |-> "undef", v |-> 0]
KV(key, value) == [k |-> key, v |-> value]

\* JavaScript truthiness of a JSON value
Truthy(value) ==
    CASE value.t = "null" -> FALSE
      [] value.t = "undef" -> FALSE
      [] value.t = "num" -> value.v # 0
      [] value.t = "str" -> value.v # <<>>
      [] OTHER -> TRUE

\* value && typeof value === 'object'
IsObject(value) == value.t \in {"obj", "arr"}

\* Array.isArray
IsArray(value) == value.t = "arr"

\* Object.entries(obj) of an object or an array
ObjectEntries(obj) ==
    IF obj.t = "arr"
    THEN [i \in 1..Len(obj.v) |-> KV(NumToString(i - 1), obj.v[i])]
    ELSE obj.v

\* current[part]: own properties of objects, elements of arrays and
\* characters of strings (inherited properties such as length are not keys
\* of any document used here)
GetProperty(current, part) ==
    CASE current.t = "obj" ->
           IF \E i \in 1..Len(current.v) : current.v[i].k = part
           THEN current.v[CHOOSE i \in 1..Len(current.v) :
                              current.v[i].k = part].v
           ELSE Undefined
      [] current.t = "arr" ->
           IF /\ IsIndexPart(part)
              /\ NumToString(ParseInt(part)) = part
              /\ ParseInt(part) < Len(current.v)
           THEN current.v[ParseInt(part) + 1]
           ELSE Undefined
      [] current.t = "str" ->
           IF /\ IsIndexPart(part)
              /\ NumToString(ParseInt(part)) = part
              /\ ParseInt(part) < Len(current.v)
           THEN JString(<<current.v[ParseInt(part) + 1]>>)
           ELSE Undefined
      [] OTHER -> Undefined

RECURSIVE WalkParts(_, _)
WalkParts(current, parts) ==
    IF parts = <<>>
    THEN current
    ELSE IF current.t \in {"undef", "null"}
         THEN Undefined
         ELSE WalkParts(GetProperty(current, Head(parts)), Tail(parts))

getValueAtPath(obj, path) ==
    IF path = <<>> THEN obj ELSE WalkParts(obj, Split(path))

\* getParent(obj, path).parent
getParent(obj, path) ==
    IF path = <<>> \/ ~Includes(path, <<".">>)
    THEN JNull
    ELSE LET parts == Split(path)
         IN  getValueAtPath(obj, JoinParts(SubSeq(parts, 1, Len(parts) - 1)))

(***************************************************************************)
(* Search                                                                  *)
(***************************************************************************)
\* const currentPath = path ? `${path}.${key}` : key
ChildPath(path, key) ==
    IF path # <<>> THEN path \o <<".">> \o key ELSE key

KeyMatches(key, query) == Includes(ToLowerCase(key), query)

KeyPriority(key, query) == IF ToLowerCase(key) = query THEN 5 ELSE 1

ValueMatches(value, query) ==
    value.t = "str" /\ Includes(ToLowerCase(value.v), query)

ValuePriority(text, query) == IF text = query THEN 5 ELSE 1

RECURSIVE searchInObject(_, _, _, _)
RECURSIVE SearchEntries(_, _, _, _)

\* the body of the forEach callback for one entry
SearchEntry(root, query, entry, path) ==
    LET key == entry.k
        value == entry.v
        currentPath == ChildPath(path, key)
        keyResult ==
            IF KeyMatches(key, query)
            THEN <<[type |-> "key", path |-> currentPath, value |-> key,
                    parentObj |-> getParent(root, currentPath),
                    childrenObj |-> value,
                    priority |-> KeyPriority(key, query)]>>
            ELSE <<>>
        valueResult ==
            IF ValueMatches(value, query)
            THEN <<[type |-> "value", path |-> currentPath,
                    value |-> value.v,
                    parentObj |-> getParent(root, currentPath),
                    childrenObj |-> JNull,
                    priority |-> ValuePriority(value.v, query)]>>
            ELSE <<>>
        nested ==
            IF IsObject(value)
            THEN searchInObject(root, query, value, currentPath)
            ELSE <<>>
    IN  keyResult \o valueResult \o nested

SearchEntries(root, query, entries, path) ==
    IF entries = <<>>
    THEN <<>>
    ELSE SearchEntry(root, query, Head(entries), path)
         \o SearchEntries(root, query, Tail(entries), path)

searchInObject(root, query, obj, path) ==
    IF ~IsObject(obj)
    THEN <<>>
    ELSE SearchEntries(root, query, ObjectEntries(obj), path)

\* the comparator of results.sort
ComparePriority(a, b) == b.priority - a.priority

\* mutant of InsertSorted: x goes before the elements it compares equal to
RECURSIVE InsertBeforeEqual(_, _)
InsertBeforeEqual(sorted, x) ==
    IF sorted = <<>>
    THEN <<x>>
    ELSE IF ComparePriority(Head(sorted), x) >= 0
         THEN <<x>> \o sorted
         ELSE <<Head(sorted)>> \o InsertBeforeEqual(Tail(sorted), x)

\* Array.prototype.sort is stable: x goes after every element that does not
\* compare greater than it
RECURSIVE InsertSorted(_, _)
InsertSorted(sorted, x) ==
    IF sorted = <<>>
    THEN <<x>>
    ELSE IF ComparePriority(Head(sorted), x) > 0
         THEN <<x>> \o sorted
         ELSE <<Head(sorted)>> \o InsertSorted(Tail(sorted), x)

RECURSIVE SortResults(_)
SortResults(results) ==
    IF results = <<>>
    THEN <<>>
    ELSE InsertSorted(SortResults(SubSeq(results, 1, Len(results) - 1)),
                      results[Len(results)])

(***************************************************************************)
(* Expansion map: a function from the dotted paths that are its keys to    *)
(* booleans; updates are lists of <<key, value>> writes in program order.  *)
(***************************************************************************)
EmptyMap == [k \in {} |-> TRUE]

\* expandedSections[p] read as a condition (an absent key is undefined)
IsExpanded(map, p) == p \in DOMAIN map /\ map[p]

Keys(writes) == {writes[i][1] : i \in 1..Len(writes)}

\* the object built by the assignments updates[key] = value, in order
UpdatesOf(writes) ==
    [k \in Keys(writes) |->
        writes[CHOOSE i \in 1..Len(writes) :
                   /\ writes[i][1] = k
                   /\ \A j \in (i + 1)..Len(writes) : writes[j][1] # k][2]]

\* mutant of Merge: the previous entries are not spread into the new map
MergeWithoutPrev(prev, updates) == updates

\* {...prev, ...updates}
Merge(prev, updates) ==
    [k \in DOMAIN prev \cup DOMAIN updates |->
        IF k \in DOMAIN updates THEN updates[k] ELSE prev[k]]

\* mutant of ToggledMap: {...prev, [path]: true}
ToggledMapOpen(prev, path) ==
    Merge(prev, UpdatesOf(<< <<path, TRUE>> >>))

\* toggleSection's updater: {...prev, [path]: !prev[path]}
ToggledMap(prev, path) ==
    Merge(prev, UpdatesOf(<< <<path, ~IsExpanded(prev, path)>> >>))

\* currentPath += (currentPath ? '.' : '') + parts[i], for parts[1..n]
RECURSIVE AccumulatedPath(_, _)
AccumulatedPath(parts, n) ==
    IF n = 0
    THEN <<>>
    ELSE LET before == AccumulatedPath(parts, n - 1)
         IN  before \o (IF before # <<>> THEN <<".">> ELSE <<>>) \o parts[n]

\* the writes of ensureParentPathsExpanded(path, updates)
ensureParentPathsExpanded(path) ==
    LET parts == Split(path)
    IN  [i \in 1..(Len(parts) - 1) |-> <<AccumulatedPath(parts, i), TRUE>>]

\* the writes of expandParentPaths(path): every prefix, the path included
ExpandParentWrites(path) ==
    LET parts == Split(path)
    IN  [i \in 1..Len(parts) |-> <<AccumulatedPath(parts, i), TRUE>>]

\* mutant of expandParentPaths: only the path itself is expanded
ExpandOnlyPath(prev, path) ==
    IF path = <<>>
    THEN prev
    ELSE Merge(prev, UpdatesOf(<< <<path, TRUE>> >>))

expandParentPaths(prev, path) ==
    IF path = <<>>
    THEN prev
    ELSE Merge(prev, UpdatesOf(ExpandParentWrites(path)))

getNormalizedPattern(path) ==
    IF path = <<>>
    THEN <<>>
    ELSE LET parts == Split(path)
         IN  JoinParts([i \in 1..Len(parts) |->
                           IF IsIndexPart(parts[i]) THEN <<"*">> ELSE parts[i]])

\* positions (0-based, as in the code) of the numeric parts
IndexPositions(parts) ==
    {i \in 0..(Len(parts) - 1) : IsIndexPart(parts[i + 1])}

\* mutant of findSiblingArrayItems: the filter does not skip the path itself
findSiblingArrayItemsWithSelf(map, path) ==
    IF path = <<>>
    THEN {}
    ELSE LET parts == Split(path)
             indexPositions == IndexPositions(parts)
             currentPattern == getNormalizedPattern(path)
         IN  IF indexPositions = {}
             THEN {}
             ELSE {p \in DOMAIN map :
                     /\ getNormalizedPattern(p) = currentPattern
                     /\ Len(Split(p)) = Len(parts)
                     /\ \A i \in 0..(Len(parts) - 1) :
                            i \in indexPositions
                            \/ parts[i + 1] = Split(p)[i + 1]}

\* the keys of the expansion map that pass the filter
findSiblingArrayItems(map, path) ==
    IF path = <<>>
    THEN {}
    ELSE LET parts == Split(path)
             indexPositions == IndexPositions(parts)
             currentPattern == getNormalizedPattern(path)
         IN  IF indexPositions = {}
             THEN {}
             ELSE {p \in DOMAIN map :
                     /\ p # path
                     /\ getNormalizedPattern(p) = currentPattern
                     /\ Len(Split(p)) = Len(parts)
                     /\ \A i \in 0..(Len(parts) - 1) :
                            i \in indexPositions
                            \/ parts[i + 1] = Split(p)[i + 1]}

findSimilarStructurePaths(map, path) ==
    IF path = <<>> THEN {} ELSE findSiblingArrayItems(map, path)

getPathUpToIndex(path, indexPosition) ==
    JoinParts(SubSeq(Split(path), 1, indexPosition))

getPathWithReplacedIndex(path, indexPosition, newIndex) ==
    LET parts == Split(path)
        prefix == JoinParts(SubSeq(parts, 1, indexPosition))
        suffix == JoinParts(SubSeq(parts, indexPosition + 2, Len(parts)))
        newIndexStr == NumToString(newIndex)
    IN  IF prefix # <<>>
        THEN (IF suffix # <<>>
              THEN prefix \o <<".">> \o newIndexStr \o <<".">> \o suffix
              ELSE prefix \o <<".">> \o newIndexStr)
        ELSE (IF suffix # <<>>
              THEN newIndexStr \o <<".">> \o suffix
              ELSE newIndexStr)

\* the first numeric part of the path, or -1
FirstIndexPosition(parts) ==
    IF IndexPositions(parts) = {}
    THEN -1
    ELSE CHOOSE i \in IndexPositions(parts) :
             \A j \in IndexPositions(parts) : i <= j

RECURSIVE SiblingsFrom(_, _, _, _, _)
SiblingsFrom(path, indexPosition, currentIndex, i, length) ==
    IF i >= length
    THEN <<>>
    ELSE (IF i # currentIndex
          THEN <<getPathWithReplacedIndex(path, indexPosition, i)>>
          ELSE <<>>)
         \o SiblingsFrom(path, indexPosition, currentIndex, i + 1, length)

findSiblingsInArray(doc, path) ==
    LET parts == Split(path)
        indexPosition == FirstIndexPosition(parts)
    IN  IF indexPosition = -1
        THEN <<>>
        ELSE LET arrayParentPath == getPathUpToIndex(path, indexPosition)
                 arrayAtPath == getValueAtPath(doc, arrayParentPath)
             IN  IF ~IsArray(arrayAtPath)
                 THEN <<>>
                 ELSE SiblingsFrom(path, indexPosition,
                                   ParseInt(parts[indexPosition + 1]),
                                   0, Len(arrayAtPath.v))

\* Array.from(new Set(items)): first occurrences, in order
RECURSIVE Dedupe(_)
Dedupe(items) ==
    IF items = <<>>
    THEN <<>>
    ELSE LET init == Dedupe(SubSeq(items, 1, Len(items) - 1))
             x == items[Len(items)]
         IN  IF \E i \in 1..Len(init) : init[i] = x
             THEN init
             ELSE Append(init, x)

\* what the forEach callback of findNestedSiblings adds for position pos
SiblingsAtPosition(doc, parts, pos) ==
    LET pathToHere == JoinParts(SubSeq(parts, 1, pos + 1))
        siblings == findSiblingsInArray(doc, pathToHere)
    IN  IF pos < Len(parts) - 1
        THEN LET suffix == JoinParts(SubSeq(parts, pos + 2, Len(parts)))
             IN  [i \in 1..Len(siblings) |->
                     siblings[i] \o <<".">> \o suffix]
        ELSE siblings

RECURSIVE NestedSiblingsFrom(_, _, _)
NestedSiblingsFrom(doc, parts, pos) ==
    IF pos >= Len(parts)
    THEN <<>>
    ELSE (IF IsIndexPart(parts[pos + 1])
          THEN SiblingsAtPosition(doc, parts, pos)
          ELSE <<>>)
         \o NestedSiblingsFrom(doc, parts, pos + 1)

findNestedSiblings(doc, path) ==
    LET parts == Split(path)
    IN  IF IndexPositions(parts) = {}
        THEN <<>>
        ELSE Dedupe(NestedSiblingsFrom(doc, parts, 0))

\* a set of paths as an array, in some order
RECURSIVE SetToSeq(_)
SetToSeq(S) ==
    IF S = {}
    THEN <<>>
    ELSE LET x == CHOOSE y \in S : TRUE
         IN  <<x>> \o SetToSeq(S \ {x})

\* mutant of TargetWrites: the parents of a target are expanded on Close
\* Similar too
RECURSIVE TargetWritesWithParents(_, _)
TargetWritesWithParents(targets, expand) ==
    IF targets = <<>>
    THEN <<>>
    ELSE << <<Head(targets), expand>> >>
         \o ensureParentPathsExpanded(Head(targets))
         \o TargetWritesWithParents(Tail(targets), expand)

\* the assignments to updates made for the targets, in order
RECURSIVE TargetWrites(_, _)
TargetWrites(targets, expand) ==
    IF targets = <<>>
    THEN <<>>
    ELSE << <<Head(targets), expand>> >>
         \o (IF expand THEN ensureParentPathsExpanded(Head(targets)) ELSE <<>>)
         \o TargetWrites(Tail(targets), expand)

\* mutant of SelfWrites: the current path is written on Close Similar too
SelfWritesAlways(path, expand) ==
    << <<path, expand>> >>
    \o (IF expand THEN ensureParentPathsExpanded(path) ELSE <<>>)

\* "For 'Open Similar', include current path. For 'Close Similar', exclude it"
SelfWrites(path, expand) ==
    IF expand
    THEN << <<path, expand>> >> \o ensureParentPathsExpanded(path)
    ELSE <<>>

SimilarWrites(path, expand, targets) ==
    SelfWrites(path, expand) \o TargetWrites(targets, expand)

\* the paths toggleSimilarStructures mirrors path onto: the nested siblings
\* or, when there are none, the pattern matches among the map's keys
SimilarTargets(doc, map, path) ==
    LET nestedSiblings == findNestedSiblings(doc, path)
    IN  IF nestedSiblings = <<>>
        THEN SetToSeq(findSimilarStructurePaths(map, path))
        ELSE nestedSiblings

\* the expansion map after toggleSimilarStructures(path, expand)
toggleSimilarStructures(doc, map, path, expand) ==
    LET targets == SimilarTargets(doc, map, path)
    IN  IF targets = <<>>
        THEN map
        ELSE Merge(map, UpdatesOf(SimilarWrites(path, expand, targets)))

(***************************************************************************)
(* Rendering: which entries renderJSON shows, and the buttons on them      *)
(***************************************************************************)
RECURSIVE renderJSON(_, _, _)
RECURSIVE RenderEntries(_, _, _)

RenderEntries(entries, path, map) ==
    IF entries = <<>>
    THEN {}
    ELSE LET currentPath == ChildPath(path, Head(entries).k)
             value == Head(entries).v
         IN  {[path |-> currentPath, value |-> value]}
             \cup (IF IsObject(value) /\ IsExpanded(map, currentPath)
                   THEN renderJSON(value, currentPath, map)
                   ELSE {})
             \cup RenderEntries(Tail(entries), path, map)

\* the entries rendered for obj, each with its path and value
renderJSON(obj, path, map) ==
    IF ~IsObject(obj)
    THEN {}
    ELSE RenderEntries(ObjectEntries(obj), path, map)

\* the rendered tree exists only under {parsedJson && ...}
RenderedEntries(doc, map) ==
    IF Truthy(doc) THEN renderJSON(doc, <<>>, map) ELSE {}

\* paths with a toggle button
TogglePaths(doc, map) ==
    {e.path : e \in {r \in RenderedEntries(doc, map) : IsObject(r.value)}}

\* paths with an Open Similar / Close Similar button
SimilarPaths(doc, map) ==
    {p \in TogglePaths(doc, map) : IsExpanded(map, p)}

allSimilarExpanded(map, path) ==
    /\ findSimilarStructurePaths(map, path) # {}
    /\ \A p \in findSimilarStructurePaths(map, path) : IsExpanded(map, p)

(***************************************************************************)
(* Effects                                                                 *)
(***************************************************************************)
\* JSON.parse of the input text: texts are told apart by what they parse to
JsonParse(text) ==
    IF text.kind = "json"
    THEN [ok |-> TRUE, value |-> text.doc]
    ELSE [ok |-> FALSE, value |-> JNull]

\* !jsonInput.trim()
IsBlankInput(text) == text.kind = "blank"

\* mutant of ParseEffect: the catch branch reports nothing
ParseEffectSilent(text) ==
    IF IsBlankInput(text) \/ ~JsonParse(text).ok
    THEN [parsedJson |-> JNull, error |-> ""]
    ELSE [parsedJson |-> JsonParse(text).value, error |-> ""]

\* the parse effect: the new parsedJson and error
ParseEffect(text) ==
    IF IsBlankInput(text)
    THEN [parsedJson |-> JNull, error |-> ""]
    ELSE IF JsonParse(text).ok
         THEN [parsedJson |-> JsonParse(text).value, error |-> ""]
         ELSE [parsedJson |-> JNull, error |-> "Invalid JSON"]

\* const query = searchQuery.toLowerCase()
NormalizedQuery(q) == ToLowerCase(q)

\* setCurrentSearchIndex(results.length > 0 ? 0 : -1)
ResetIndex(results) == IF Len(results) > 0 THEN 0 ELSE -1

\* mutant of SearchEffect: the guard does not look at the query
SearchEffectAnyQuery(doc, q, index) ==
    IF ~Truthy(doc)
    THEN [results |-> <<>>, index |-> index]
    ELSE LET results ==
                 SortResults(searchInObject(doc, NormalizedQuery(q), doc, <<>>))
         IN  [results |-> results, index |-> ResetIndex(results)]

\* mutant of SearchEffect: the new results are set without resetting the index
SearchEffectNoReset(doc, q, index) ==
    IF Trim(q) = <<>> \/ ~Truthy(doc)
    THEN [results |-> <<>>, index |-> index]
    ELSE [results |->
              SortResults(searchInObject(doc, NormalizedQuery(q), doc, <<>>)),
          index |-> index]

\* the search effect: the new searchResults and currentSearchIndex
SearchEffect(doc, q, index) ==
    IF Trim(q) = <<>> \/ ~Truthy(doc)
    THEN [results |-> <<>>, index |-> index]
    ELSE LET results ==
                 SortResults(searchInObject(doc, NormalizedQuery(q), doc, <<>>))
         IN  [results |-> results, index |-> ResetIndex(results)]

\* the navigation effect reads searchResults[currentSearchIndex].path
NavigationReads(results, index) == index >= 0 /\ Len(results) > 0

NavigationFault(results, index) ==
    NavigationReads(results, index) /\ index >= Len(results)

\* the navigation effect: the expansion map after expandParentPaths
NavigationEffect(map, results, index) ==
    IF NavigationReads(results, index) /\ ~NavigationFault(results, index)
    THEN expandParentPaths(map, results[index + 1].path)
    ELSE map

\* mutant of NextIndex: the last match is not left
NextIndexNoWrap(prev, length) ==
    IF prev + 1 < length THEN prev + 1 ELSE prev

\* mutant of PrevIndex: the first match is not left
PrevIndexNoWrap(prev, length) == IF prev <= 0 THEN 0 ELSE prev - 1

\* the updaters of navigateToNextResult and navigateToPrevResult
NextIndex(prev, length) == (prev + 1) % length

PrevIndex(prev, length) == IF prev <= 0 THEN length - 1 ELSE prev - 1

(***************************************************************************)
(* Inputs of the model: documents, input texts and queries                 *)
(***************************************************************************)
sA == <<"a">>
sX == <<"x">>
sN == <<"n">>
sName == <<"n", "a", "m", "e">>
sNested == <<"n", "e", "s", "t", "e", "d">>
sBobCap == <<"B", "o", "b">>
sBob == <<"b", "o", "b">>
sBobSpace == <<"b", "o", "b", " ">>
sSpace == <<" ">>
sEmpty == <<>>

\* {"name":"Bob","nested":{"name":"bob"}}
DocPeople ==
    JObject(<<KV(sName, JString(sBobCap)),
              KV(sNested, JObject(<<KV(sName, JString(sBob))>>))>>)

\* {"a":[{"x":1},{"x":2}]}
DocItems ==
    JObject(<<KV(sA, JArray(<<JObject(<<KV(sX, JNumber(1))>>),
                              JObject(<<KV(sX, JNumber(2))>>)>>))>>)

\* {"a":[{"x":1}]}
DocSingle ==
    JObject(<<KV(sA, JArray(<<JObject(<<KV(sX, JNumber(1))>>)>>))>>)

\* {"a":[[[],[]],[[]]]}
DocGrid ==
    JObject(<<KV(sA, JArray(<<JArray(<<JArray(<<>>), JArray(<<>>)>>),
                              JArray(<<JArray(<<>>)>>)>>))>>)

Documents == {DocPeople, DocItems, DocSingle, DocGrid}

BlankText == [kind |-> "blank", doc |-> JNull]
MalformedText == [kind |-> "malformed", doc |-> JNull]
JsonText(doc) == [kind |-> "json", doc |-> doc]

InputTexts == {BlankText, MalformedText} \cup {JsonText(d) : d \in Documents}

Queries == {sEmpty, sSpace, sBob, sBobSpace, sX, sN}

(***************************************************************************)
(* The state machine.  Each action is one user event together with the     *)
(* effects React runs after it, up to the next settled state.  last        *)
(* records the event: its path and expand argument, the paths a similar    *)
(* toggle mirrored onto, the index before the event, whether the           *)
(* navigation effect read a match and whether that read was out of range.  *)
(***************************************************************************)
\* origin: for a navigation that directly follows the opposite navigation,
\* the index that one started from; -1 for every other event
Event(op, path, expand, targets, from, navigated, fault) ==
    [op |-> op, path |-> path, expand |-> expand, targets |-> targets,
     from |-> from, navigated |-> navigated, fault |-> fault,
     origin |-> IF \/ (op = "previous" /\ last.op = "next")
                   \/ (op = "next" /\ last.op = "previous")
                THEN last.from
                ELSE -1]

\* useState initial values; the effects of the first render change nothing
Init ==
    /\ jsonInput = BlankText
    /\ parsedJson = JNull
    /\ error = ""
    /\ expandedSections = EmptyMap
    /\ searchQuery = sEmpty
    /\ searchResults = <<>>
    /\ currentSearchIndex = 0
    /\ last = [op |-> "init", path |-> <<>>, expand |-> FALSE, targets |-> {},
               from |-> 0, navigated |-> FALSE, fault |-> FALSE,
               origin |-> -1]
    /\ steps = 0
    /\ mounted = EmptyMap
    /\ searchResultRefs = EmptyMap
    /\ scrollTimers = <<>>
    /\ removeTimers = <<>>
    /\ highlighted = {}

\* mutant of SetJsonInput: a parse failure also resets the expansion map
SetJsonInputClearing(text) ==
    /\ text # jsonInput
    /\ LET parsed == ParseEffect(text)
           searchRuns == \/ IsObject(parsed.parsedJson)
                         \/ parsed.parsedJson # parsedJson
           found == IF searchRuns
                    THEN SearchEffect(parsed.parsedJson, searchQuery,
                                      currentSearchIndex)
                    ELSE [results |-> searchResults,
                          index |-> currentSearchIndex]
       IN  /\ jsonInput' = text
           /\ parsedJson' = parsed.parsedJson
           /\ error' = parsed.error
           /\ searchResults' = found.results
           /\ currentSearchIndex' = found.index
           /\ expandedSections' =
                  IF parsed.error # ""
                  THEN EmptyMap
                  ELSE IF searchRuns
                       THEN NavigationEffect(expandedSections, found.results,
                                             found.index)
                       ELSE expandedSections
           /\ last' = Event("setJsonInput", <<>>, FALSE, {},
                            currentSearchIndex,
                            searchRuns /\ NavigationReads(found.results,
                                                          found.index),
                            searchRuns /\ NavigationFault(found.results,
                                                          found.index))
    /\ UNCHANGED searchQuery

\* textarea onChange: setJsonInput, then the parse, search and navigation
\* effects
SetJsonInput(text) ==
    /\ text # jsonInput
    /\ LET parsed == ParseEffect(text)
           searchRuns == \/ IsObject(parsed.parsedJson)
                         \/ parsed.parsedJson # parsedJson
           found == IF searchRuns
                    THEN SearchEffect(parsed.parsedJson, searchQuery,
                                      currentSearchIndex)
                    ELSE [results |-> searchResults,
                          index |-> currentSearchIndex]
       IN  /\ jsonInput' = text
           /\ parsedJson' = parsed.parsedJson
           /\ error' = parsed.error
           /\ searchResults' = found.results
           /\ currentSearchIndex' = found.index
           /\ expandedSections' =
                  IF searchRuns
                  THEN NavigationEffect(expandedSections, found.results,
                                        found.index)
                  ELSE expandedSections
           /\ last' = Event("setJsonInput", <<>>, FALSE, {},
                            currentSearchIndex,
                            searchRuns /\ NavigationReads(found.results,
                                                          found.index),
                            searchRuns /\ NavigationFault(found.results,
                                                          found.index))
    /\ UNCHANGED searchQuery

\* search input onChange (the input is rendered only under parsedJson):
\* setSearchQuery, then the search and navigation effects
SetSearchQuery(q) ==
    /\ Truthy(parsedJson)
    /\ q # searchQuery
    /\ LET found == SearchEffect(parsedJson, q, currentSearchIndex)
       IN  /\ searchQuery' = q
           /\ searchResults' = found.results
           /\ currentSearchIndex' = found.index
           /\ expandedSections' =
                  NavigationEffect(expandedSections, found.results,
                                   found.index)
           /\ last' = Event("setSearchQuery", <<>>, FALSE, {},
                            currentSearchIndex,
                            NavigationReads(found.results, found.index),
                            NavigationFault(found.results, found.index))
    /\ UNCHANGED <<jsonInput, parsedJson, error>>

\* a navigation handler with updater f; the navigation effect runs when the
\* index changed
Navigate(op, index) ==
    /\ currentSearchIndex' = index
    /\ expandedSections' =
           IF index # currentSearchIndex
           THEN NavigationEffect(expandedSections, searchResults, index)
           ELSE expandedSections
    /\ last' = Event(op, <<>>, FALSE, {}, currentSearchIndex,
                     index # currentSearchIndex
                         /\ NavigationReads(searchResults, index),
                     index # currentSearchIndex
                         /\ NavigationFault(searchResults, index))
    /\ UNCHANGED <<jsonInput, parsedJson, error, searchQuery, searchResults>>

navigateToNextResult ==
    IF Len(searchResults) = 0
    THEN /\ last' = Event("next", <<>>, FALSE, {}, currentSearchIndex,
                          FALSE, FALSE)
         /\ UNCHANGED <<jsonInput, parsedJson, error, expandedSections,
                        searchQuery, searchResults, currentSearchIndex>>
    ELSE Navigate("next", NextIndex(currentSearchIndex, Len(searchResults)))

navigateToPrevResult ==
    IF Len(searchResults) = 0
    THEN /\ last' = Event("previous", <<>>, FALSE, {}, currentSearchIndex,
                          FALSE, FALSE)
         /\ UNCHANGED <<jsonInput, parsedJson, error, expandedSections,
                        searchQuery, searchResults, currentSearchIndex>>
    ELSE Navigate("previous",
                  PrevIndex(currentSearchIndex, Len(searchResults)))

\* a click on the toggle button of a rendered container
toggleSection(path) ==
    /\ path \in TogglePaths(parsedJson, expandedSections)
    /\ expandedSections' = ToggledMap(expandedSections, path)
    /\ last' = Event("toggle", path, ~IsExpanded(expandedSections, path),
                     {}, currentSearchIndex, FALSE, FALSE)
    /\ UNCHANGED <<jsonInput, parsedJson, error, searchQuery, searchResults,
                   currentSearchIndex>>

\* a click on Open Similar / Close Similar of a rendered, expanded container:
\* toggleSimilarStructures(currentPath, !allSimilarExpanded)
ToggleSimilar(path) ==
    /\ path \in SimilarPaths(parsedJson, expandedSections)
    /\ LET expand == ~allSimilarExpanded(expandedSections, path)
           targets == SimilarTargets(parsedJson, expandedSections, path)
       IN  /\ expandedSections' =
                  toggleSimilarStructures(parsedJson, expandedSections,
                                          path, expand)
           /\ last' = Event("similar", path, expand,
                            {targets[i] : i \in 1..Len(targets)},
                            currentSearchIndex, FALSE, FALSE)
    /\ UNCHANGED <<jsonInput, parsedJson, error, searchQuery, searchResults,
                   currentSearchIndex>>

\* the paths of the container entries of obj, at every depth
RECURSIVE ContainerPaths(_, _)
ContainerPaths(obj, path) ==
    IF ~IsObject(obj)
    THEN {}
    ELSE UNION {(IF IsObject(ObjectEntries(obj)[i].v)
                 THEN {ChildPath(path, ObjectEntries(obj)[i].k)}
                 ELSE {})
                \cup ContainerPaths(ObjectEntries(obj)[i].v,
                                    ChildPath(path, ObjectEntries(obj)[i].k)) :
                i \in 1..Len(ObjectEntries(obj))}

TogglePathsOfDoc(d) == ContainerPaths(d, <<>>)

\* every path a button can carry in some document
AllPaths ==
    UNION {TogglePathsOfDoc(d) : d \in Documents}

\* one more user event, while the session lasts
Tick == steps < MaxSteps /\ steps' = steps + 1

\* a user event in the specifications that follow the document state alone:
\* the page (timers and highlight classes, which no handler reads) is
\* followed in SpecTimers
Step == Tick /\ UNCHANGED page

Next ==
    \/ \E text \in InputTexts : Step /\ SetJsonInput(text)
    \/ \E q \in Queries : Step /\ SetSearchQuery(q)
    \/ Step /\ navigateToNextResult
    \/ Step /\ navigateToPrevResult
    \/ \E path \in AllPaths : Step /\ toggleSection(path)
    \/ \E path \in AllPaths : Step /\ ToggleSimilar(path)

Spec == Init /\ [][Next]_vars

(***************************************************************************)
(* Reference definitions for the properties: they describe the document    *)
(* and its paths directly and use none of the search or sibling operators. *)
(***************************************************************************)
\* the cursor as an index into searchResults (sequences start at 1)
ActiveMatch == searchResults[currentSearchIndex + 1]

CursorValid ==
    currentSearchIndex >= 0 /\ currentSearchIndex < Len(searchResults)

\* the paths obtained by cutting path before one of its dots
StrictAncestors(path) ==
    {SubSeq(path, 1, i - 1) : i \in {k \in 1..Len(path) : path[k] = "."}}

\* every entry of the document, parents before children and earlier entries
\* (with all they contain) before later ones
RECURSIVE PreorderEntries(_, _)
PreorderEntries(obj, path) ==
    IF ~IsObject(obj)
    THEN <<>>
    ELSE LET entries == ObjectEntries(obj)
             OfEntry(i) ==
                 <<[path |-> ChildPath(path, entries[i].k),
                    key |-> entries[i].k, value |-> entries[i].v]>>
                 \o PreorderEntries(entries[i].v,
                                    ChildPath(path, entries[i].k))
             Upto[n \in 0..Len(entries)] ==
                 IF n = 0 THEN <<>> ELSE Upto[n - 1] \o OfEntry(n)
         IN  Upto[Len(entries)]

\* the place of a match in the traversal: the position of its entry, and
\* within one entry the key before the value
TraversalRank(doc, match) ==
    LET entries == PreorderEntries(doc, <<>>)
        at == CHOOSE i \in 1..Len(entries) : entries[i].path = match.path
    IN  2 * at + (IF match.type = "key" THEN 0 ELSE 1)

\* the query as the specification reads it: trimmed and lowercased
TrimmedQuery == ToLowerCase(Trim(searchQuery))

\* the value the document holds at the given parts of a path
RECURSIVE ValueAt(_, _)
ValueAt(value, parts) ==
    IF parts = <<>>
    THEN value
    ELSE ValueAt(GetProperty(value, Head(parts)), Tail(parts))

\* for every index position of path whose array is in the document, the
\* paths that differ from path in that index alone
ArraySiblings(doc, path) ==
    LET parts == Split(path)
    IN  UNION {
            LET array == ValueAt(doc, SubSeq(parts, 1, i - 1))
            IN  IF IsIndexPart(parts[i]) /\ IsArray(array)
                THEN {JoinParts([parts EXCEPT ![i] = NumToString(j)]) :
                          j \in (0..(Len(array.v) - 1)) \ {ParseInt(parts[i])}}
                ELSE {} :
            i \in 1..Len(parts)}

(***************************************************************************)
(* Properties                                                              *)
(***************************************************************************)
\* C1: in every settled state the cursor is -1 exactly when the match list
\* is empty and is otherwise a valid index; an empty or whitespace-only
\* query on a document leaves no matches and the cursor at -1.
C1_CursorNoneIffEmpty ==
    /\ (currentSearchIndex = -1) <=> (searchResults = <<>>)
    /\ searchResults # <<>> => CursorValid
    /\ (Truthy(parsedJson) /\ Trim(searchQuery) = <<>>) =>
           (searchResults = <<>> /\ currentSearchIndex = -1)

\* C2: on a non-empty match list of length n, next() moves the cursor c to
\* (c + 1) mod n and previous() to n - 1 when c = 0 and to c - 1 otherwise;
\* on an empty list both leave cursor, match list and expansion map as
\* they are.
C2_NextPreviousStep ==
    [][/\ (last'.op = "next" /\ searchResults # <<>>) =>
              /\ currentSearchIndex' =
                     (currentSearchIndex + 1) % Len(searchResults)
              /\ searchResults' = searchResults
       /\ (last'.op = "previous" /\ searchResults # <<>>) =>
              /\ currentSearchIndex' =
                     (IF currentSearchIndex = 0
                      THEN Len(searchResults) - 1
                      ELSE currentSearchIndex - 1)
              /\ searchResults' = searchResults
       /\ (last'.op \in {"next", "previous"} /\ searchResults = <<>>) =>
              UNCHANGED <<currentSearchIndex, searchResults,
                          expandedSections>>]_vars

\* C2 witness: next() wrapped from the last match to the first
C2_Witness ==
    /\ last.op = "next"
    /\ Len(searchResults) >= 2
    /\ last.from = Len(searchResults) - 1
    /\ currentSearchIndex = 0

\* C3: on a non-empty match list, next() directly followed by previous(),
\* or previous() directly followed by next(), brings the cursor back to
\* where it was.
C3_NextPreviousRoundTrip ==
    (last.origin # -1 /\ searchResults # <<>>) =>
        currentSearchIndex = last.origin

\* C3 witness: previous() after a next() that moved across the end of a
\* list of three
C3_Witness ==
    /\ last.op = "previous"
    /\ last.origin = Len(searchResults) - 1
    /\ last.from = 0
    /\ Len(searchResults) >= 3

\* C4: whenever the navigation effect has run for the active match, every
\* strict ancestor path of the active match is expanded.
C4_AncestorsOfActiveMatchExpanded ==
    last.navigated =>
        /\ CursorValid
        /\ \A a \in StrictAncestors(ActiveMatch.path) :
               IsExpanded(expandedSections, a)

\* C4 witness: next() moved to a match two levels deep
C4_Witness ==
    /\ last.navigated
    /\ last.op = "next"
    /\ CursorValid
    /\ Cardinality(StrictAncestors(ActiveMatch.path)) >= 2

\* C5: a match has priority 5 exactly when its matched text lowercased
\* equals the trimmed, lowercased query, and priority 1 otherwise; for
\* {"name":"Bob","nested":{"name":"bob"}} and query "bob" the list is the
\* value match at name, then the value match at nested.name, both of
\* priority 5.
C5_PriorityIffExactMatch ==
    /\ \A i \in 1..Len(searchResults) :
           /\ searchResults[i].priority \in {1, 5}
           /\ (searchResults[i].priority = 5) <=>
                  (ToLowerCase(searchResults[i].value) = TrimmedQuery)
    /\ (parsedJson = DocPeople /\ searchQuery = sBob) =>
           /\ Len(searchResults) = 2
           /\ \A i \in 1..2 : /\ searchResults[i].type = "value"
                              /\ searchResults[i].priority = 5
           /\ searchResults[1].path = sName
           /\ searchResults[2].path = sNested \o <<".">> \o sName

\* C6: the match list is ordered by non-increasing priority, and matches of
\* equal priority are in traversal order.
C6_SortedByPriorityStable ==
    Truthy(parsedJson) =>
        \A i, j \in 1..Len(searchResults) :
            i < j =>
                /\ searchResults[i].priority >= searchResults[j].priority
                /\ searchResults[i].priority = searchResults[j].priority =>
                       TraversalRank(parsedJson, searchResults[i])
                           < TraversalRank(parsedJson, searchResults[j])

\* C6 witness: the sort moved a later match of priority 5 before an
\* earlier one of priority 1
C6_Witness ==
    /\ Truthy(parsedJson)
    /\ Len(searchResults) >= 2
    /\ searchResults[1].priority > searchResults[2].priority
    /\ TraversalRank(parsedJson, searchResults[1])
           > TraversalRank(parsedJson, searchResults[2])

\* C7: the lowercased text of every match contains the trimmed, lowercased
\* query, and an empty or whitespace-only query has no matches.
C7_MatchesContainQuery ==
    /\ \A i \in 1..Len(searchResults) :
           Includes(ToLowerCase(searchResults[i].value), TrimmedQuery)
    /\ Trim(searchQuery) = <<>> => searchResults = <<>>

\* C7 witness: a value matched without regard to case
C7_Witness ==
    /\ searchQuery = sBob
    /\ \E i \in 1..Len(searchResults) :
           searchResults[i].type = "value" /\ searchResults[i].value = sBobCap

\* C8: search is complete for the trimmed, lowercased query: every entry
\* whose lowercased key contains it has a key match and every entry whose
\* string value lowercased contains it has a value match, so whitespace
\* around the query changes nothing.
C8_SearchCompleteForTrimmedQuery ==
    (Truthy(parsedJson) /\ Trim(searchQuery) # <<>>) =>
        \A e \in {PreorderEntries(parsedJson, <<>>)[i] :
                      i \in 1..Len(PreorderEntries(parsedJson, <<>>))} :
            /\ Includes(ToLowerCase(e.key), TrimmedQuery) =>
                   \E i \in 1..Len(searchResults) :
                       /\ searchResults[i].type = "key"
                       /\ searchResults[i].path = e.path
                       /\ searchResults[i].value = e.key
            /\ (e.value.t = "str"
                    /\ Includes(ToLowerCase(e.value.v), TrimmedQuery)) =>
                   \E i \in 1..Len(searchResults) :
                       /\ searchResults[i].type = "value"
                       /\ searchResults[i].path = e.path
                       /\ searchResults[i].value = e.value.v

\* C9: after toggleSimilarStructures(p, true), the path p, every path that
\* differs from p in one array index (at any index position of p, over all
\* elements of that array) and every strict ancestor of those are expanded.
C9_OpenSimilarCoversEveryArrayLevel ==
    (last.op = "similar" /\ last.expand) =>
        \A q \in {last.path} \cup ArraySiblings(parsedJson, last.path) :
            /\ IsExpanded(expandedSections, q)
            /\ \A a \in StrictAncestors(q) : IsExpanded(expandedSections, a)

\* C10 as stated: after toggleSimilarStructures(p, expand) with a non-empty
\* sibling set, p and every sibling hold the value expand.
C10_PathAndSiblingsSetToExpand ==
    (last.op = "similar" /\ last.targets # {}) =>
        \A q \in {last.path} \cup last.targets :
            /\ q \in DOMAIN expandedSections
            /\ expandedSections[q] = last.expand

\* C10 amended: after toggleSimilarStructures(p, expand) with a non-empty
\* sibling set every sibling holds the value expand; p holds true when
\* expand is true, and when expand is false the entry of p is left as it
\* was.
C10_SiblingsSetToExpand ==
    [][(last'.op = "similar" /\ last'.targets # {}) =>
           /\ \A q \in last'.targets :
                  /\ q \in DOMAIN expandedSections'
                  /\ expandedSections'[q] = last'.expand
           /\ last'.expand =>
                  /\ last'.path \in DOMAIN expandedSections'
                  /\ expandedSections'[last'.path]
           /\ ~last'.expand =>
                  /\ (last'.path \in DOMAIN expandedSections')
                         <=> (last'.path \in DOMAIN expandedSections)
                  /\ last'.path \in DOMAIN expandedSections =>
                         expandedSections'[last'.path]
                             = expandedSections[last'.path]]_vars

\* C10 witness: Close Similar collapsed the siblings and left p expanded
C10_Witness ==
    /\ last.op = "similar"
    /\ ~last.expand
    /\ last.targets # {}
    /\ \A q \in last.targets : ~IsExpanded(expandedSections, q)
    /\ IsExpanded(expandedSections, last.path)

\* whether an entry of the expansion map is the same before and after a step:
\* present in both with one value, or absent from both
EntryKept(k) ==
    /\ (k \in DOMAIN expandedSections') <=> (k \in DOMAIN expandedSections)
    /\ k \in DOMAIN expandedSections =>
           expandedSections'[k] = expandedSections[k]

\* the segments of a path that are array indices: non-empty, digits only
IndexSegments(path) ==
    {i \in 1..Len(Split(path)) :
         /\ Split(path)[i] # <<>>
         /\ \A c \in 1..Len(Split(path)[i]) :
                Split(path)[i][c] \in
                    {"0", "1", "2", "3", "4", "5", "6", "7", "8", "9"}}

\* C11: toggleSimilarStructures(p, expand) changes nothing (not the
\* expansion map, the cursor or the match list) whenever p has no array
\* index segment or the sibling set it computed, from the live lookup and
\* from the fallback, is empty.
C11_NoIndexOrNoSiblingsIsNoOp ==
    [][(/\ last'.op = "similar"
        /\ (IndexSegments(last'.path) = {} \/ last'.targets = {})) =>
           /\ expandedSections' = expandedSections
           /\ currentSearchIndex' = currentSearchIndex
           /\ searchResults' = searchResults]_vars

\* C11 witness: the toggle was used on a path without an index segment
\* while the map held other keys
C11_Witness ==
    /\ last.op = "similar"
    /\ IndexSegments(last.path) = {}
    /\ DOMAIN expandedSections # {last.path}

\* the other case of C11: a path with an index segment, an array of one
\* element and no key of its pattern in the map
C11_WitnessNoSiblings ==
    /\ last.op = "similar"
    /\ IndexSegments(last.path) # {}
    /\ last.targets = {}

\* C12: toggleSimilarStructures(p, false) changes no entry of the expansion
\* map other than those of p and of its siblings: the strict ancestors of p
\* and of the siblings, and every other path, keep their entries.
C12_CloseSimilarLeavesOthers ==
    [][(last'.op = "similar" /\ ~last'.expand) =>
           \A k \in (DOMAIN expandedSections \cup DOMAIN expandedSections')
                       \ ({last'.path} \cup last'.targets) :
               EntryKept(k)]_vars

\* C12 witness: Close Similar collapsed a sibling one of whose strict
\* ancestors is not expanded, and that ancestor stayed so
C12_Witness ==
    /\ last.op = "similar"
    /\ ~last.expand
    /\ \E q \in last.targets :
           /\ q \in DOMAIN expandedSections
           /\ ~expandedSections[q]
           /\ \E a \in StrictAncestors(q) : ~IsExpanded(expandedSections, a)

\* the serialized path a.0.x
pA0X == <<"a", ".", "0", ".", "x">>

\* C13: once the input text is malformed JSON, whatever the state before,
\* the settled state has no document, a non-empty error message and an empty
\* match list.
C13_MalformedInputNoDocument ==
    jsonInput.kind = "malformed" =>
        /\ parsedJson = JNull
        /\ error # ""
        /\ searchResults = <<>>

\* C13 witness: the input became malformed while a query was set whose
\* matches on the document before had been navigated to
C13_Witness ==
    /\ last.op = "setJsonInput"
    /\ jsonInput.kind = "malformed"
    /\ searchQuery = sX
    /\ IsExpanded(expandedSections, pA0X)

\* C14 as stated: once the input text is malformed JSON the expansion map
\* is empty.
C14_MalformedInputClearsMap ==
    jsonInput.kind = "malformed" => DOMAIN expandedSections = {}

\* C14 amended: the change of the input text to malformed JSON leaves the
\* expansion map exactly as it was, toggled and force-expanded entries
\* included.
C14_MalformedInputKeepsMap ==
    [][(last'.op = "setJsonInput" /\ jsonInput'.kind = "malformed") =>
           expandedSections' = expandedSections]_vars

\* C14 witness: the input is malformed and the map still holds an entry set
\* by a toggle and entries forced by navigation
C14_Witness ==
    /\ last.op = "setJsonInput"
    /\ jsonInput.kind = "malformed"
    /\ \E k \in DOMAIN expandedSections : ~expandedSections[k]
    /\ \E k \in DOMAIN expandedSections : expandedSections[k]

\* C15: no operation ever removes a key from the expansion map: the key set
\* after every step contains the key set before it.
C15_KeysNeverRemoved ==
    [][DOMAIN expandedSections \subseteq DOMAIN expandedSections']_vars

\* C15 witness: a key of an earlier document is still in the map after the
\* document was replaced and a section of the new one was toggled
C15_Witness ==
    /\ parsedJson = DocPeople
    /\ sA \in DOMAIN expandedSections
    /\ sNested \in DOMAIN expandedSections
    /\ last.op = "toggle"

\* C16: toggle(path) negates the expanded value of that path, an absent
\* entry counting as false, and leaves every other entry as it was; a second
\* toggle of the same path right after gives the path its original value.
C16_ToggleNegatesOnePath ==
    [][last'.op = "toggle" =>
           /\ last'.path \in DOMAIN expandedSections'
           /\ expandedSections'[last'.path]
                  = ~IsExpanded(expandedSections, last'.path)
           /\ \A k \in (DOMAIN expandedSections \cup DOMAIN expandedSections')
                           \ {last'.path} :
                  EntryKept(k)
           /\ (last.op = "toggle" /\ last.path = last'.path) =>
                  IsExpanded(expandedSections', last'.path) = ~last.expand]_vars

\* C16 witness: a document was loaded and one absent path toggled twice, so
\* that it is collapsed again
C16_Witness ==
    /\ steps = 3
    /\ last.op = "toggle"
    /\ ~last.expand
    /\ DOMAIN expandedSections = {last.path}
    /\ ~expandedSections[last.path]

(***************************************************************************)
(* Paths of documents whose keys contain a dot or are digits only.  The    *)
(* specification SpecPaths loads such documents and toggles their          *)
(* sections.                                                                *)
(***************************************************************************)
sB == <<"b">>
sZero == <<"0">>
sADotB == <<"a", ".", "b">>
sADotZero == <<"a", ".", "0">>

\* what the key "a" holds: 1, {"b":[]}, {"0":[]}, [[]] or []
PathValues ==
    {JNumber(1),
     JObject(<<KV(sB, JArray(<<>>))>>),
     JObject(<<KV(sZero, JArray(<<>>))>>),
     JArray(<<JArray(<<>>)>>),
     JArray(<<>>)}

\* {"a": v, "a.b": w} and {"a": v, "a.0": w}
PathDocuments ==
    {JObject(<<KV(sA, v), KV(k, w)>>) :
         v \in PathValues, k \in {sADotB, sADotZero},
         w \in {JNumber(1), JArray(<<>>)}}

PathDocumentPaths ==
    UNION {TogglePathsOfDoc(d) : d \in PathDocuments}

NextPaths ==
    \/ \E d \in PathDocuments : Step /\ SetJsonInput(JsonText(d))
    \/ \E path \in PathDocumentPaths : Step /\ toggleSection(path)

SpecPaths == Init /\ [][NextPaths]_vars

\* the paths searchInObject gives the entries of the document, one for each
\* entry in the order of the traversal (every key contains the empty query)
TraversalPaths(doc) ==
    LET found == searchInObject(doc, <<>>, doc, <<>>)
        ofKeys == SelectSeq(found, LAMBDA r : r.type = "key")
    IN  [i \in 1..Len(ofKeys) |-> ofKeys[i].path]

\* C17: the dotted path assigned during the traversal is unique per node:
\* two distinct entries of the document never get the same path, also when
\* keys contain "." or consist of digits only.
C17_PathsUnique ==
    \A i, j \in 1..Len(TraversalPaths(parsedJson)) :
        i # j => TraversalPaths(parsedJson)[i] # TraversalPaths(parsedJson)[j]

\* C18: findNestedSiblings(p) returns, without duplicates, exactly the
\* paths that differ from p in one array index, for every index position of
\* p whose prefix is an array of the document and every other index of that
\* array (so also the paths that vary an inner index); p is not among them.
C18_NestedSiblingsAtEveryPosition ==
    last.op = "similar" =>
        LET found == findNestedSiblings(parsedJson, last.path)
        IN  /\ {found[i] : i \in 1..Len(found)}
                   = ArraySiblings(parsedJson, last.path)
            /\ \A i, j \in 1..Len(found) : i # j => found[i] # found[j]
            /\ \A i \in 1..Len(found) : found[i] # last.path

(***************************************************************************)
(* The pattern fallback of toggleSimilarStructures.  The specification     *)
(* SpecFallback has a document with an array of arrays and one in which    *)
(* every array has a single element, so that keys entered for the first    *)
(* are matched by pattern in the second.                                   *)
(***************************************************************************)
\* {"a":[[{"x":1},{"x":1}],[{"x":1}]]}
DocMatrix ==
    JObject(<<KV(sA, JArray(<<JArray(<<JObject(<<KV(sX, JNumber(1))>>),
                                       JObject(<<KV(sX, JNumber(1))>>)>>),
                              JArray(<<JObject(<<KV(sX, JNumber(1))>>)>>)>>))>>)

\* {"a":[[{"x":1}]]}
DocDeep ==
    JObject(<<KV(sA, JArray(<<JArray(<<JObject(<<KV(sX, JNumber(1))>>)>>)>>))>>)

FallbackDocuments == {DocMatrix, DocDeep}

FallbackTexts ==
    {BlankText, MalformedText} \cup {JsonText(d) : d \in FallbackDocuments}

FallbackQueries == {sEmpty, sX}

FallbackPaths == UNION {TogglePathsOfDoc(d) : d \in FallbackDocuments}

NextFallback ==
    \/ \E text \in FallbackTexts : Step /\ SetJsonInput(text)
    \/ \E q \in FallbackQueries : Step /\ SetSearchQuery(q)
    \/ Step /\ navigateToNextResult
    \/ Step /\ navigateToPrevResult
    \/ \E path \in FallbackPaths : Step /\ toggleSection(path)
    \/ \E path \in FallbackPaths : Step /\ ToggleSimilar(path)

SpecFallback == Init /\ [][NextFallback]_vars

\* the Pattern of a path: its segments, each index segment replaced by "*"
PatternOf(path) ==
    [i \in 1..Len(Split(path)) |->
        IF i \in IndexSegments(path) THEN <<"*">> ELSE Split(path)[i]]

\* the keys of the map other than p with the Pattern of p, as many segments
\* and the segments of p at every position where p has no index
PatternMatches(map, p) ==
    {q \in DOMAIN map :
         /\ q # p
         /\ PatternOf(q) = PatternOf(p)
         /\ Len(Split(q)) = Len(Split(p))
         /\ \A i \in (1..Len(Split(p))) \ IndexSegments(p) :
                Split(q)[i] = Split(p)[i]}

\* the strict ancestors of p and of the paths in S
AncestorsOfAll(S) == UNION {StrictAncestors(q) : q \in S}

\* whether the similar toggle of this step used the fallback, and the set
\* of paths it mirrored onto, as C19 describes them
FallbackUsed == findNestedSiblings(parsedJson, last'.path) = <<>>

TargetsAsSpecified ==
    LET nested == findNestedSiblings(parsedJson, last'.path)
    IN  IF nested # <<>>
        THEN last'.targets = {nested[i] : i \in 1..Len(nested)}
        ELSE last'.targets = PatternMatches(expandedSections, last'.path)

\* C19 as stated: the fallback is used only when findNestedSiblings(p) is
\* empty and yields exactly the keys of the map other than p with the
\* Pattern, the segment count and the non-index segments of p; a fallback
\* toggle affects no path that was never entered into the map.
C19_FallbackAffectsOnlyKeys ==
    [][last'.op = "similar" =>
           /\ TargetsAsSpecified
           /\ FallbackUsed =>
                  \A k \in DOMAIN expandedSections' :
                      k \in DOMAIN expandedSections]_vars

\* C19 amended: as above, but a fallback toggle with expand = true may
\* enter strict ancestors of p and of the keys it mirrors onto, set to true;
\* it enters no other path and changes no entry besides those of p, of these
\* keys and of their strict ancestors.
C19_FallbackEntersOnlyAncestors ==
    [][last'.op = "similar" =>
           /\ TargetsAsSpecified
           /\ FallbackUsed =>
                  /\ \A k \in DOMAIN expandedSections' \ DOMAIN expandedSections :
                         /\ last'.expand
                         /\ expandedSections'[k]
                         /\ k \in AncestorsOfAll({last'.path}
                                                    \cup last'.targets)
                  /\ \A k \in DOMAIN expandedSections :
                         EntryKept(k)
                         \/ k \in {last'.path} \cup last'.targets
                         \/ (last'.expand
                             /\ k \in AncestorsOfAll({last'.path}
                                                        \cup last'.targets))]_vars

\* C19 witness: an Open Similar through the fallback mirrored onto keys of
\* an earlier document, one of them with a parent that is now expanded
C19_Witness ==
    /\ last.op = "similar"
    /\ last.expand
    /\ findNestedSiblings(parsedJson, last.path) = <<>>
    /\ \E q \in last.targets :
           /\ getValueAtPath(parsedJson, q) = Undefined
           /\ \A a \in StrictAncestors(q) : IsExpanded(expandedSections, a)

\* C20: the navigation side effect changes only the entries of the strict
\* ancestors of the active match's path, which it sets to true: the entry
\* of the match's own path and every other entry stay as they were, and no
\* entry goes from true to false.
C20_NavigationForcesOnlyAncestors ==
    [][(last'.navigated /\ ~last'.fault) =>
           LET path == searchResults'[currentSearchIndex' + 1].path
           IN  /\ \A a \in StrictAncestors(path) :
                      IsExpanded(expandedSections', a)
               /\ \A k \in (DOMAIN expandedSections
                                \cup DOMAIN expandedSections')
                               \ StrictAncestors(path) :
                      EntryKept(k)
               /\ \A k \in DOMAIN expandedSections :
                      expandedSections[k] => expandedSections'[k]]_vars

\* C22: whenever the match list is non-empty the cursor is a valid index
\* into it, in every settled state, so neither the Match Details panel nor
\* the navigation effect reads the list out of bounds.
C22_CursorWithinMatches ==
    /\ searchResults # <<>> =>
           (0 <= currentSearchIndex /\ currentSearchIndex < Len(searchResults))
    /\ ~last.fault

\* C22 witness: a new document or query left a non-empty match list shorter
\* than the index the cursor stood at before
C22_Witness ==
    /\ last.op \in {"setJsonInput", "setSearchQuery"}
    /\ searchResults # <<>>
    /\ last.from >= Len(searchResults)

(***************************************************************************)
(* Queries made of digits.  The specification SpecDigits searches the      *)
(* documents of Spec, which contain arrays, for "0" and for "x".           *)
(***************************************************************************)
DigitQueries == {sEmpty, sZero, sX}

NextDigits ==
    \/ \E text \in InputTexts : Step /\ SetJsonInput(text)
    \/ \E q \in DigitQueries : Step /\ SetSearchQuery(q)
    \/ Step /\ navigateToNextResult
    \/ Step /\ navigateToPrevResult

SpecDigits == Init /\ [][NextDigits]_vars

\* the container that holds the entry at path
ContainerOf(doc, path) ==
    ValueAt(doc, SubSeq(Split(path), 1, Len(Split(path)) - 1))

\* C24: key matches are emitted only for the keys of objects: the index of
\* an array element is never reported as a key match, whatever the query.
C24_KeyMatchesOnlyInObjects ==
    \A i \in 1..Len(searchResults) :
        searchResults[i].type = "key" =>
            ContainerOf(parsedJson, searchResults[i].path).t = "obj"

(***************************************************************************)
(* The page side of a navigation.  An element is the span of the entry at  *)
(* a path together with the event at which it was mounted: React keeps the *)
(* element of an entry (key={currentPath}) for as long as the entry is     *)
(* rendered and makes a new one when it is rendered again.  The documents  *)
(* of SpecTimers have number values only, so every match is a key match    *)
(* and the ref of a path is the key span.                                  *)
(***************************************************************************)
Element(path, born) == [path |-> path, born |-> born]

\* the entries the tree shows
RenderedPaths(doc, map) == {e.path : e \in RenderedEntries(doc, map)}

\* the ref callbacks store the element of a rendered entry that is a match
MatchPaths(results) == {results[i].path : i \in 1..Len(results)}

\* the className of the span holds search-result-current
IsCurrentResult(results, index, path) ==
    \E i \in 1..Len(results) : results[i].path = path /\ i - 1 = index

\* the element is in the document
Attached(element) ==
    /\ element.path \in DOMAIN mounted
    /\ mounted[element.path] = element.born

\* the renders of a user event: entries stay mounted or are mounted anew,
\* rendered matches store their element, and an element whose className
\* prop changed gets it written again, which drops the class added by hand
PageAfterRender ==
    LET rendered == RenderedPaths(parsedJson', expandedSections')
        now == [p \in rendered |->
                   IF p \in DOMAIN mounted THEN mounted[p] ELSE steps']
        stored == rendered \cap MatchPaths(searchResults')
    IN  /\ mounted' = now
        /\ searchResultRefs' =
               [p \in DOMAIN searchResultRefs \cup stored |->
                   IF p \in stored THEN now[p] ELSE searchResultRefs[p]]
        /\ highlighted' =
               {el \in highlighted :
                    /\ el.path \in rendered
                    /\ now[el.path] = el.born
                    /\ IsCurrentResult(searchResults, currentSearchIndex,
                                       el.path)
                           <=> IsCurrentResult(searchResults',
                                               currentSearchIndex', el.path)}

\* setTimeout(..., 100) of the navigation effect, which keeps result.path
ScheduleScroll ==
    scrollTimers' =
        IF last'.navigated /\ ~last'.fault
        THEN Append(scrollTimers, searchResults'[currentSearchIndex' + 1].path)
        ELSE scrollTimers

\* what a user event does to the page
PageEffects ==
    /\ PageAfterRender
    /\ ScheduleScroll
    /\ UNCHANGED removeTimers

\* a removal timer waits for the 100 ms timers that were set before it
AfterScroll(timers) ==
    [i \in 1..Len(timers) |->
        [timers[i] EXCEPT !.waits = IF @ > 0 THEN @ - 1 ELSE 0]]

\* mutant of FireScrollTimer: the class is added and no removal is scheduled
FireScrollTimerNoRemoval ==
    /\ scrollTimers # <<>>
    /\ LET path == Head(scrollTimers)
       IN  IF path \in DOMAIN searchResultRefs
           THEN LET element == Element(path, searchResultRefs[path])
                IN  highlighted' = IF Attached(element)
                                   THEN highlighted \cup {element}
                                   ELSE highlighted
           ELSE UNCHANGED highlighted
    /\ removeTimers' = AfterScroll(removeTimers)
    /\ scrollTimers' = Tail(scrollTimers)
    /\ UNCHANGED <<jsonInput, parsedJson, error, expandedSections, searchQuery,
                   searchResults, currentSearchIndex, last, steps, mounted,
                   searchResultRefs>>

\* the 100 ms timer fires: the element stored for the path, if any, gets the
\* class search-highlight and a 2000 ms timer to remove it
FireScrollTimer ==
    /\ scrollTimers # <<>>
    /\ LET path == Head(scrollTimers)
       IN  IF path \in DOMAIN searchResultRefs
           THEN LET element == Element(path, searchResultRefs[path])
                IN  /\ highlighted' = IF Attached(element)
                                      THEN highlighted \cup {element}
                                      ELSE highlighted
                    /\ removeTimers' =
                           Append(AfterScroll(removeTimers),
                                  [element |-> element,
                                   waits |-> Len(scrollTimers) - 1])
           ELSE /\ removeTimers' = AfterScroll(removeTimers)
                /\ UNCHANGED highlighted
    /\ scrollTimers' = Tail(scrollTimers)
    /\ UNCHANGED <<jsonInput, parsedJson, error, expandedSections, searchQuery,
                   searchResults, currentSearchIndex, last, steps, mounted,
                   searchResultRefs>>

\* the 2000 ms timer fires: element.classList.remove('search-highlight')
FireRemoveTimer ==
    /\ removeTimers # <<>>
    /\ Head(removeTimers).waits = 0
    /\ highlighted' = highlighted \ {Head(removeTimers).element}
    /\ removeTimers' = Tail(removeTimers)
    /\ UNCHANGED <<jsonInput, parsedJson, error, expandedSections, searchQuery,
                   searchResults, currentSearchIndex, last, steps, mounted,
                   searchResultRefs, scrollTimers>>

TimerTexts == {BlankText, JsonText(DocItems), JsonText(DocSingle)}

TimerQueries == {sEmpty, sX, sA}

NextTimers ==
    \/ \E text \in TimerTexts : Tick /\ SetJsonInput(text) /\ PageEffects
    \/ \E q \in TimerQueries : Tick /\ SetSearchQuery(q) /\ PageEffects
    \/ Tick /\ navigateToNextResult /\ PageEffects
    \/ Tick /\ navigateToPrevResult /\ PageEffects
    \/ FireScrollTimer
    \/ FireRemoveTimer

SpecTimers == Init /\ [][NextTimers]_vars

\* every timer that is set fires
SpecTimersFair ==
    SpecTimers /\ WF_vars(FireScrollTimer) /\ WF_vars(FireRemoveTimer)

\* a step in which the first removal timer fires
RemovalFires == Len(removeTimers') < Len(removeTimers)

\* a later navigation has applied the highlight to the element: its own
\* removal timer is pending behind the first one and the class is on
LaterHighlightOn(element) ==
    /\ element \in highlighted
    /\ \E i \in 2..Len(removeTimers) : removeTimers[i].element = element

\* C21: a removal timer set by an earlier navigation never removes the
\* highlight that a later navigation has applied to the same element: when
\* it fires after the later highlight was applied, that highlight stays
\* until its own removal timer fires.
C21_EarlierTimerKeepsLaterHighlight ==
    [][(RemovalFires /\ LaterHighlightOn(Head(removeTimers).element)) =>
           Head(removeTimers).element \in highlighted']_vars

\* nothing is highlighted and no timer is pending
Quiescent ==
    /\ highlighted = {}
    /\ scrollTimers = <<>>
    /\ removeTimers = <<>>

\* C23: every highlight a navigation applies is removed in the end: when
\* every timer that is set fires, the page comes to rest with no element
\* highlighted and no timer pending once the user events have stopped.
C23_HighlightsEventuallyRemoved == <>[]Quiescent

\* C23 witness: a navigation has highlighted an element that is still in
\* the document, and the timer that will remove the class is pending
C23_Witness ==
    /\ \E el \in highlighted :
           /\ Attached(el)
           /\ \E i \in 1..Len(removeTimers) : removeTimers[i].element = el
    /\ steps > 0

====
